---- MODULE Spec2Model ----
(***************************************************************************)
(* ConversQL: a web gateway (api_optimized_api.py) that answers a query by *)
(* spawning a tool process (sqlcheckmcpserver.py) and driving an agent     *)
(* over the tools it exposes, and the tool process itself, which reads    *)
(* table DDL and runs SELECT statements against an Oracle store.          *)
(*                                                                         *)
(* Text is modelled as a sequence of one-character strings, so that       *)
(* strip(), upper(), startswith() and replace() are computed.             *)
(***************************************************************************)
EXTENDS Integers, Sequences, FiniteSets, TLC

\* ------------------------------------------------------------------ bounds
MaxPad == 1        \* whitespace characters put before and after a query word
MaxCalls == 2      \* tool calls served by one tool process
MaxToolCalls == 1  \* tool invocations of one reasoning loop
MaxQueries == 2    \* queries the peer sends on one WebSocket connection
NumUnary == 2      \* unary requests in flight together

VARIABLES
    \* ---- tool process (sqlcheckmcpserver.py)
    tpc,        \* position of the tool call being served
    tool,       \* "get_table_ddl" | "execute_select_query" | "none"
    param,      \* arguments of the call: [table, query], each [none, s]
    conns,      \* store connections that are open
    nextConn,   \* id the next oracledb.connect() yields
    opened,     \* connections the call being served has opened
    connLog,    \* ids of all connections opened, in order
    stmts,      \* statements the call being served has executed on the store
    storeErr,   \* the store reported an error during the call being served
    noRow,      \* the store answered the call's metadata query with no row
    result,     \* what the last call returned
    calls,      \* calls served
    \* ---- gateway (api_optimized_api.py)
    pc,         \* position of each request handler
    client,     \* each handler's MCPClient: "none" | "open" | "closed"
    clients,    \* MCPClients each handler has built
    configured, \* each handler's _stdio_server_params is set
    cur,        \* index in procs of each handler's current session, 0 if none
    procs,      \* every session opened: [owner, alive, open, log]
    steps,      \* tool invocations of each handler's current reasoning loop
    resp,       \* text the reasoning loop of each handler produced
    cause,      \* why each handler's current query failed
    out,        \* what each handler has sent to its caller, in order
    received,   \* queries each handler has received
    wsOpen      \* the WebSocket connection is open

toolVars == <<tpc, tool, param, conns, nextConn, opened, connLog, stmts,
              storeErr, noRow, result, calls>>
gwVars == <<pc, client, clients, configured, cur, procs, steps, resp, cause,
            out, received, wsOpen>>
vars == <<toolVars, gwVars>>

\* ------------------------------------------------------------------ text
Whitespace == {" ", "\n"}

UpperChar(c) ==
    CASE c = "s" -> "S" [] c = "e" -> "E" [] c = "l" -> "L" [] c = "c" -> "C"
      [] c = "t" -> "T" [] c = "d" -> "D" [] c = "x" -> "X" [] OTHER -> c

\* str.upper()
Upper(s) == [i \in 1..Len(s) |-> UpperChar(s[i])]

RECURSIVE LStrip(_)
LStrip(s) == IF s # <<>> /\ Head(s) \in Whitespace THEN LStrip(Tail(s)) ELSE s

RECURSIVE RStrip(_)
RStrip(s) ==
    IF s # <<>> /\ s[Len(s)] \in Whitespace
    THEN RStrip(SubSeq(s, 1, Len(s) - 1)) ELSE s

\* str.strip()
Strip(s) == RStrip(LStrip(s))

\* str.startswith(p)
StartsWith(s, p) == Len(s) >= Len(p) /\ SubSeq(s, 1, Len(p)) = p

\* p occurs in s
Contains(s, p) ==
    \E i \in 1..(Len(s) - Len(p) + 1) : SubSeq(s, i, i + Len(p) - 1) = p

\* str.replace(p, ''): one left-to-right pass over non-overlapping occurrences
RECURSIVE Remove(_, _)
Remove(s, p) ==
    IF s = <<>> THEN <<>>
    ELSE IF StartsWith(s, p) THEN Remove(SubSeq(s, Len(p) + 1, Len(s)), p)
    ELSE <<Head(s)>> \o Remove(Tail(s), p)

SeqsUpTo(S, n) == UNION {[1..k -> S] : k \in 0..n}

\* ------------------------------------------------- tool process: inputs
SELECT == <<"S", "E", "L", "E", "C", "T">>

Words ==
    { <<>>,
      SELECT,
      <<"s", "e", "l", "e", "c", "t">>,
      <<"S", "e", "l", "e", "c", "t">>,
      <<"S", "E", "L", "E", "C">>,
      <<"D", "E", "L", "E", "T", "E">>,
      <<"d", "e", "l", "e", "t", "e">>,
      <<"X", "S", "E", "L", "E", "C", "T">>,
      <<"S", "E", "L", "E", "C", "T", "X">>,
      <<"S", " ", "E", "L", "E", "C", "T">>,
      <<"s", "e", "l", "e", "c", "t", " ", "x">> }

Pads == SeqsUpTo(Whitespace, MaxPad)

\* the query texts a caller may pass
Queries == {a \o w \o b : a \in Pads, w \in Words, b \in Pads}

\* the table names a caller may pass, and the tables the store holds
TableNames == {<<"t">>, <<"T">>, <<"x">>}
StoreTables == {<<"T">>}

\* the text of an oracledb.Error
StoreErrors == {<<"O", "R", "A">>}

None == [none |-> TRUE, s |-> <<>>]
Str(s) == [none |-> FALSE, s |-> s]

\* Python truth of an optional string: None and '' are false
Truthy(v) == ~v.none /\ v.s # <<>>

Res(msg, arg) == [msg |-> msg, arg |-> arg]
NoResult == Res("", <<>>)

\* an exception leaving the tool function
Fault(e) == Res("RAISED", e)

\* ------------------------------------------- tool process: the functions
\* get_db_connection(): a new connection on every call
GetDbConnection == nextConn

\* a with block that leaves the connection open
ExitWithLeak(cs, c) == cs

\* leaving `with get_db_connection() as conn`: the connection is closed
ExitWith(cs, c) == cs \ {c}

\* the connection of the call being served, when it has opened one
CurConn == connLog[Len(connLog)]

Released == IF opened > 0 THEN ExitWith(conns, CurConn) ELSE conns

\* a check that looks for SELECT anywhere in the query
IsSelectAnywhere(q) == Contains(Upper(Strip(q)), SELECT)

\* query.strip().upper().startswith('SELECT')
IsSelect(q) == StartsWith(Upper(Strip(q)), SELECT)

\* an except clause missing from execute_select_query
CatchDdlOnly(t, e) ==
    IF t = "get_table_ddl" THEN Res("Error retrieving DDL: ", e) ELSE Fault(e)

\* except oracledb.Error as e: return f"Error ...: {str(e)}"
Catch(t, e) ==
    IF t = "get_table_ddl" THEN Res("Error retrieving DDL: ", e)
    ELSE Res("Error executing query: ", e)

\* str(result[0]) of DBMS_METADATA.GET_DDL for table n
DdlText(n) == Res("DDL", <<"D", "D", "L", " ">> \o n)

\* a message built from the upper-cased name
NoDdlTextUpper(n) == Res("No DDL found for table ", Upper(n))

\* f"No DDL found for table {table_name}": the name as the caller gave it
NoDdlText(n) == Res("No DDL found for table ", n)

NotSelectText == Res("Error: Only SELECT queries are allowed", <<>>)
ParamsText == Res("Error: Both table_name and query parameters are required", <<>>)

\* json.dumps(formatted_results, default=str, indent=2)
JsonText == Res("JSON", <<>>)

\* the call returns r: the with block is left, then the function
Return(r) ==
    /\ result' = r
    /\ conns' = Released
    /\ tpc' = "idle"
    /\ calls' = calls + 1

\* the store raises oracledb.Error e inside the try block
Raise(e) ==
    /\ storeErr' = TRUE
    /\ Return(Catch(tool, e))

\* ---------------------------------------------- tool process: the steps
\* get_table_ddl(table_name) is called
CallDdl ==
    \E n \in TableNames :
        /\ tpc = "idle" /\ calls < MaxCalls
        /\ tool' = "get_table_ddl"
        /\ param' = [table |-> Str(n), query |-> None]
        /\ tpc' = "connect"
        /\ opened' = 0 /\ stmts' = <<>> /\ storeErr' = FALSE /\ noRow' = FALSE
        /\ result' = NoResult
        /\ UNCHANGED <<conns, nextConn, connLog, calls>>
        /\ UNCHANGED gwVars

\* execute_select_query(params) is called: lines 52-56
CallSelect ==
    \E t \in {None, Str(<<>>), Str(<<"T">>)}, q \in {None} \cup {Str(x) : x \in Queries} :
        /\ tpc = "idle" /\ calls < MaxCalls
        /\ tool' = "execute_select_query"
        /\ param' = [table |-> t, query |-> q]
        /\ opened' = 0 /\ stmts' = <<>> /\ storeErr' = FALSE /\ noRow' = FALSE
        /\ IF ~Truthy(t) \/ ~Truthy(q)
           THEN /\ result' = ParamsText
                /\ tpc' = "idle"
                /\ calls' = calls + 1
           ELSE /\ result' = NoResult
                /\ tpc' = "connect"
                /\ calls' = calls
        /\ UNCHANGED <<conns, nextConn, connLog>>
        /\ UNCHANGED gwVars

\* with get_db_connection() as conn
Connect ==
    /\ tpc = "connect"
    /\ \/ /\ conns' = conns \cup {GetDbConnection}
          /\ connLog' = Append(connLog, GetDbConnection)
          /\ nextConn' = nextConn + 1
          /\ opened' = opened + 1
          /\ tpc' = "cursor"
          /\ UNCHANGED <<storeErr, result, calls>>
       \/ /\ \E e \in StoreErrors : Raise(e)
          /\ UNCHANGED <<connLog, nextConn, opened>>
    /\ UNCHANGED <<tool, param, stmts, noRow>>
    /\ UNCHANGED gwVars

\* cursor = conn.cursor()
Cursor ==
    /\ tpc = "cursor"
    /\ \/ /\ tpc' = IF tool = "get_table_ddl" THEN "execute" ELSE "validate"
          /\ UNCHANGED <<storeErr, result, conns, calls>>
       \/ \E e \in StoreErrors : Raise(e)
    /\ UNCHANGED <<tool, param, nextConn, opened, connLog, stmts, noRow>>
    /\ UNCHANGED gwVars

\* the SELECT check of execute_select_query: lines 62-63
Validate ==
    /\ tpc = "validate"
    /\ IF ~IsSelect(param.query.s)
       THEN Return(NotSelectText)
       ELSE /\ tpc' = "execute"
            /\ UNCHANGED <<result, conns, calls>>
    /\ UNCHANGED <<tool, param, nextConn, opened, connLog, stmts, storeErr, noRow>>
    /\ UNCHANGED gwVars

\* the statement the call hands to cursor.execute
Statement ==
    IF tool = "get_table_ddl"
    THEN <<"G", "E", "T", "_", "D", "D", "L", " ">> \o Upper(param.table.s)
    ELSE param.query.s

\* cursor.execute(...): the store runs the statement or reports an error; for
\* a table it does not hold it answers with no row or reports an error
Execute ==
    /\ tpc = "execute"
    /\ stmts' = Append(stmts, Statement)
    /\ \/ /\ tool = "get_table_ddl" => Upper(param.table.s) \in StoreTables
          /\ tpc' = "fetch"
          /\ UNCHANGED <<storeErr, noRow, result, conns, calls>>
       \/ /\ tool = "get_table_ddl" /\ Upper(param.table.s) \notin StoreTables
          /\ tpc' = "fetch"
          /\ noRow' = TRUE
          /\ UNCHANGED <<storeErr, result, conns, calls>>
       \/ /\ \E e \in StoreErrors : Raise(e)
          /\ UNCHANGED noRow
    /\ UNCHANGED <<tool, param, nextConn, opened, connLog>>
    /\ UNCHANGED gwVars

\* cursor.fetchone() / cursor.description and cursor.fetchall(), and the return
Fetch ==
    /\ tpc = "fetch"
    /\ \/ /\ Return(IF tool = "get_table_ddl"
                    THEN IF noRow THEN NoDdlText(param.table.s)
                         ELSE DdlText(Upper(param.table.s))
                    ELSE JsonText)
          /\ UNCHANGED storeErr
       \/ \E e \in StoreErrors : Raise(e)
    /\ UNCHANGED <<tool, param, nextConn, opened, connLog, stmts, noRow>>
    /\ UNCHANGED gwVars

\* ------------------------------------------------------ gateway: inputs
Unary == 1..NumUnary   \* the unary requests (POST /api/ai/query)
WSConn == 0            \* the WebSocket connection (/ws/ai/query)
Tasks == Unary \cup {WSConn}

THINK_OPEN == <<"<", "t", "h", "i", "n", "k", ">">>
THINK_CLOSE == <<"<", "/", "t", "h", "i", "n", "k", ">">>

\* the final texts a reasoning loop may produce
AgentTexts ==
    { <<"a">>,
      <<" ", "a", " ">>,
      THINK_OPEN \o <<"x">> \o THINK_CLOSE \o <<"a">>,
      <<"<", "t", "h", "i">> \o THINK_OPEN \o <<"n", "k", ">", "a">>,
      <<"<">> \o THINK_CLOSE \o <<"t", "h", "i", "n", "k", ">", "a">>,
      THINK_CLOSE }

\* f"Error: {str(e)}" and HTTPException(500, detail=str(e))
ErrorText == <<"E", "r", "r", "o", "r", ":", " ", "e">>

Frame(k, x) == [kind |-> k, text |-> x]

\* a child process kept and handed to every caller
SpawnShared(ps, t) ==
    IF ps = <<>>
    THEN <<[owner |-> t, alive |-> TRUE, open |-> FALSE, log |-> <<"spawn">>]>>
    ELSE ps

\* ---------------------------------------------------- gateway: sessions
\* async with stdio_client(...): a child process of its own for the caller
Spawn(ps, t) ==
    Append(ps, [owner |-> t, alive |-> TRUE, open |-> FALSE, log |-> <<"spawn">>])

\* a session closed without terminating its child
CloseSessionLeak(p) == [p EXCEPT !.open = FALSE, !.log = Append(@, "close")]

\* leaving both `async with` blocks: session closed, child terminated
CloseSession(p) ==
    [p EXCEPT !.alive = FALSE, !.open = FALSE, !.log = Append(@, "close")]

\* ai_query without the initialize handshake
AfterStepNoInit(p) ==
    CASE p = "aq_start" -> "aq_session"
      [] p = "aq_session" -> "aq_tools"
      [] p = "aq_init" -> "aq_tools"
      [] p = "aq_tools" -> "aq_loop"
      [] OTHER -> "aq_done"

\* the order of the statements of MCPClient.ai_query
AfterStep(p) ==
    CASE p = "aq_start" -> "aq_session"
      [] p = "aq_session" -> "aq_init"
      [] p = "aq_init" -> "aq_tools"
      [] p = "aq_tools" -> "aq_loop"
      [] OTHER -> "aq_done"

\* response.replace('<think>', '').replace('</think>', '').strip()
Clean(r) == Strip(Remove(Remove(r, THINK_OPEN), THINK_CLOSE))

\* what query_ai puts in {"response": ...}
UnaryBody(r) == r

InSession == {"aq_session", "aq_init", "aq_tools", "aq_loop"}

Event(t, e) == [procs EXCEPT ![cur[t]].log = Append(@, e)]
Goto(t, p) == [pc EXCEPT ![t] = p]

\* an exception leaves ai_query through the `async with` blocks it is in
Raised(t) ==
    /\ cause' = [cause EXCEPT ![t] =
                    IF pc[t] \in InSession /\ ~procs[cur[t]].alive
                    THEN "transport" ELSE "other"]
    /\ procs' = IF pc[t] \in InSession
                THEN [procs EXCEPT ![cur[t]] = CloseSession(@)] ELSE procs
    /\ pc' = Goto(t, "aq_raised")

\* ------------------------------------------- MCPClient.ai_query, per task
\* lines 103-106: the configuration check and the spawn of the child
AqSpawn(t) ==
    /\ pc[t] = "aq_start"
    /\ \/ /\ configured[t]
          /\ procs' = Spawn(procs, t)
          /\ cur' = [cur EXCEPT ![t] = Len(procs')]
          /\ pc' = Goto(t, AfterStep("aq_start"))
          /\ UNCHANGED cause
       \/ /\ Raised(t)
          /\ UNCHANGED cur
    /\ UNCHANGED <<client, clients, configured, steps, resp, out, received, wsOpen>>
    /\ UNCHANGED toolVars

\* line 107: async with ClientSession(...) as session
AqSession(t) ==
    /\ pc[t] = "aq_session"
    /\ procs' = [procs EXCEPT ![cur[t]].open = TRUE]
    /\ pc' = Goto(t, AfterStep("aq_session"))
    /\ UNCHANGED <<client, clients, configured, cur, steps, resp, cause, out,
                   received, wsOpen>>
    /\ UNCHANGED toolVars

\* line 108: await session.initialize()
AqInitialize(t) ==
    /\ pc[t] = "aq_init"
    /\ \/ /\ procs[cur[t]].alive
          /\ procs' = Event(t, "initialize")
          /\ pc' = Goto(t, AfterStep("aq_init"))
          /\ UNCHANGED cause
       \/ Raised(t)
    /\ UNCHANGED <<client, clients, configured, cur, steps, resp, out, received, wsOpen>>
    /\ UNCHANGED toolVars

\* line 111: agent = await self._get_agent(session), which loads the tools
AqGetAgent(t) ==
    /\ pc[t] = "aq_tools"
    /\ \/ /\ procs[cur[t]].alive
          /\ procs' = Event(t, "list_tools")
          /\ pc' = Goto(t, AfterStep("aq_tools"))
          /\ UNCHANGED cause
       \/ Raised(t)
    /\ UNCHANGED <<client, clients, configured, cur, steps, resp, out, received, wsOpen>>
    /\ UNCHANGED toolVars

\* line 112: the reasoning loop invokes a tool of the session
AqToolCall(t) ==
    /\ pc[t] = "aq_loop"
    /\ steps[t] < MaxToolCalls
    /\ procs[cur[t]].alive
    /\ procs' = Event(t, "call_tool")
    /\ steps' = [steps EXCEPT ![t] = @ + 1]
    /\ UNCHANGED <<pc, client, clients, configured, cur, resp, cause, out,
                   received, wsOpen>>
    /\ UNCHANGED toolVars

\* lines 112-116: the loop ends with a final text, which ai_query returns
AqReturn(t) ==
    /\ pc[t] = "aq_loop"
    /\ \E x \in AgentTexts : resp' = [resp EXCEPT ![t] = x]
    /\ procs' = [procs EXCEPT ![cur[t]] = CloseSession(@)]
    /\ pc' = Goto(t, AfterStep("aq_loop"))
    /\ UNCHANGED <<client, clients, configured, cur, steps, cause, out, received, wsOpen>>
    /\ UNCHANGED toolVars

\* line 112: the loop fails (the model, a step limit, the transport)
AqLoopFails(t) ==
    /\ pc[t] = "aq_loop"
    /\ Raised(t)
    /\ UNCHANGED <<client, clients, configured, cur, steps, resp, out, received, wsOpen>>
    /\ UNCHANGED toolVars

\* the child process of a session in use dies
ChildCrash(t) ==
    /\ pc[t] \in InSession
    /\ procs[cur[t]].alive
    /\ procs' = [procs EXCEPT ![cur[t]].alive = FALSE]
    /\ UNCHANGED <<pc, client, clients, configured, cur, steps, resp, cause, out,
                   received, wsOpen>>
    /\ UNCHANGED toolVars

AiQuery(t) ==
    \/ AqSpawn(t) \/ AqSession(t) \/ AqInitialize(t) \/ AqGetAgent(t)
    \/ AqToolCall(t) \/ AqReturn(t) \/ AqLoopFails(t) \/ ChildCrash(t)

\* ------------------------------------------------------------- query_ai
\* lines 163-180: the client is built and configured, ai_query is called
QueryAi(t) ==
    /\ pc[t] = "idle"
    /\ client' = [client EXCEPT ![t] = "open"]
    /\ clients' = [clients EXCEPT ![t] = @ + 1]
    /\ configured' = [configured EXCEPT ![t] = TRUE]
    /\ received' = [received EXCEPT ![t] = @ + 1]
    /\ pc' = Goto(t, "aq_start")
    /\ UNCHANGED <<cur, procs, steps, resp, cause, out, wsOpen>>
    /\ UNCHANGED toolVars

\* lines 181, 185-186: the answer is returned, finally closes the client
QueryAiReturn(t) ==
    /\ pc[t] = "aq_done"
    /\ out' = [out EXCEPT ![t] = Append(@, Frame("answer", UnaryBody(resp[t])))]
    /\ client' = [client EXCEPT ![t] = "closed"]
    /\ pc' = Goto(t, "done")
    /\ UNCHANGED <<clients, configured, cur, procs, steps, resp, cause, received, wsOpen>>
    /\ UNCHANGED toolVars

\* lines 182-186: the exception becomes a 500, finally closes the client
QueryAiError(t) ==
    /\ pc[t] = "aq_raised"
    /\ out' = [out EXCEPT ![t] = Append(@, Frame("http500", ErrorText))]
    /\ client' = [client EXCEPT ![t] = "closed"]
    /\ pc' = Goto(t, "done")
    /\ UNCHANGED <<clients, configured, cur, procs, steps, resp, cause, received, wsOpen>>
    /\ UNCHANGED toolVars

\* --------------------------------------------------- websocket_ai_query
\* lines 190-210: the connection is accepted, the client built and configured
WsAccept ==
    /\ pc[WSConn] = "idle"
    /\ wsOpen' = TRUE
    /\ client' = [client EXCEPT ![WSConn] = "open"]
    /\ clients' = [clients EXCEPT ![WSConn] = @ + 1]
    /\ configured' = [configured EXCEPT ![WSConn] = TRUE]
    /\ pc' = Goto(WSConn, "receive")
    /\ UNCHANGED <<cur, procs, steps, resp, cause, out, received>>
    /\ UNCHANGED toolVars

\* lines 214-217: a query is received and ai_query is called
WsReceive ==
    /\ pc[WSConn] = "receive"
    /\ received[WSConn] < MaxQueries
    /\ received' = [received EXCEPT ![WSConn] = @ + 1]
    /\ steps' = [steps EXCEPT ![WSConn] = 0]
    /\ pc' = Goto(WSConn, "aq_start")
    /\ UNCHANGED <<client, clients, configured, cur, procs, resp, cause, out, wsOpen>>
    /\ UNCHANGED toolVars

\* lines 214, 221-222, 226-228: the peer disconnects while the handler waits
WsDisconnect ==
    /\ pc[WSConn] = "receive"
    /\ wsOpen' = FALSE
    /\ client' = [client EXCEPT ![WSConn] = "closed"]
    /\ pc' = Goto(WSConn, "done")
    /\ UNCHANGED <<clients, configured, cur, procs, steps, resp, cause, out, received>>
    /\ UNCHANGED toolVars

\* lines 218-219: the answer is cleaned and sent, the loop goes on
WsSend ==
    /\ pc[WSConn] = "aq_done"
    /\ out' = [out EXCEPT ![WSConn] = Append(@, Frame("answer", Clean(resp[WSConn])))]
    /\ pc' = Goto(WSConn, "receive")
    /\ UNCHANGED <<client, clients, configured, cur, procs, steps, resp, cause,
                   received, wsOpen>>
    /\ UNCHANGED toolVars

\* lines 223-228: except Exception sends one error frame; the while loop has
\* been left, so finally closes the client and the handler returns
WsError ==
    /\ pc[WSConn] = "aq_raised"
    /\ out' = [out EXCEPT ![WSConn] = Append(@, Frame("error", ErrorText))]
    /\ client' = [client EXCEPT ![WSConn] = "closed"]
    /\ wsOpen' = FALSE
    /\ pc' = Goto(WSConn, "done")
    /\ UNCHANGED <<clients, configured, cur, procs, steps, resp, cause, received>>
    /\ UNCHANGED toolVars

\* lines 219, 223-228: the peer has gone, send_text raises in the loop and again
\* in except Exception; finally closes the client and the handler ends
WsSendFails ==
    /\ pc[WSConn] \in {"aq_done", "aq_raised"}
    /\ client' = [client EXCEPT ![WSConn] = "closed"]
    /\ wsOpen' = FALSE
    /\ pc' = Goto(WSConn, "done")
    /\ UNCHANGED <<clients, configured, cur, procs, steps, resp, cause, out, received>>
    /\ UNCHANGED toolVars

\* ------------------------------------------------------- specifications
Init ==
    /\ tpc = "idle" /\ tool = "none"
    /\ param = [table |-> None, query |-> None]
    /\ conns = {} /\ nextConn = 1 /\ opened = 0 /\ connLog = <<>>
    /\ stmts = <<>> /\ storeErr = FALSE /\ noRow = FALSE
    /\ result = NoResult /\ calls = 0
    /\ pc = [t \in Tasks |-> "idle"]
    /\ client = [t \in Tasks |-> "none"]
    /\ clients = [t \in Tasks |-> 0]
    /\ configured = [t \in Tasks |-> FALSE]
    /\ cur = [t \in Tasks |-> 0]
    /\ procs = <<>>
    /\ steps = [t \in Tasks |-> 0]
    /\ resp = [t \in Tasks |-> <<>>]
    /\ cause = [t \in Tasks |-> "none"]
    /\ out = [t \in Tasks |-> <<>>]
    /\ received = [t \in Tasks |-> 0]
    /\ wsOpen = FALSE

\* the tool process serving calls
ToolNext ==
    \/ CallDdl \/ CallSelect \/ Connect \/ Cursor \/ Validate \/ Execute \/ Fetch

\* the unary requests, in flight together
UnaryNext ==
    \E t \in Unary : QueryAi(t) \/ AiQuery(t) \/ QueryAiReturn(t) \/ QueryAiError(t)

\* one WebSocket connection
WsNext ==
    \/ WsAccept \/ WsReceive \/ WsDisconnect \/ WsSend \/ WsError \/ WsSendFails
    \/ AiQuery(WSConn)

Next == ToolNext \/ UnaryNext \/ WsNext

SpecTool == Init /\ [][ToolNext]_vars
SpecUnary == Init /\ [][UnaryNext]_vars
SpecWS == Init /\ [][WsNext]_vars
Spec == Init /\ [][Next]_vars

\* ================================================================ claims
\* ---- helpers of the claims
Range(f) == {f[i] : i \in DOMAIN f}
ProcsOf(t) == {i \in 1..Len(procs) : procs[i].owner = t}
Spawned(t) == Cardinality(ProcsOf(t))
Discovered(t) == Cardinality({i \in ProcsOf(t) : "list_tools" \in Range(procs[i].log)})
Answered(t) == Cardinality({i \in 1..Len(out[t]) : out[t][i].kind = "answer"})
HasDelimiter(x) == Contains(x, THINK_OPEN) \/ Contains(x, THINK_CLOSE)

\* a call of execute_select_query with both parameters present and a query
\* that, trimmed and upper-cased, does not start with SELECT
RejectedCall ==
    /\ tool = "execute_select_query"
    /\ Truthy(param.table) /\ Truthy(param.query)
    /\ ~StartsWith(Upper(Strip(param.query.s)), SELECT)

\* a call of get_table_ddl for a table the store does not hold, returned
UnknownTableReturned ==
    /\ tool = "get_table_ddl" /\ tpc = "idle"
    /\ Upper(param.table.s) \notin StoreTables

\* ---- C1
\* C1 as stated: a call with both parameters and a query that does not start
\* with SELECT returns 'Error: Only SELECT queries are allowed' and executes
\* no statement.
C1_Original ==
    RejectedCall =>
        /\ stmts = <<>>
        /\ tpc = "idle" => result = NotSelectText

\* C1 amended: such a call executes no statement and returns an error text:
\* 'Error: Only SELECT queries are allowed', or 'Error executing query: ...'
\* when the store fails to open the connection or the cursor before the check.
C1_RejectsNonSelect ==
    RejectedCall =>
        /\ stmts = <<>>
        /\ tpc = "idle" =>
              IF storeErr
              THEN result.msg = "Error executing query: " /\ result.arg \in StoreErrors
              ELSE result = NotSelectText

C1_Witness ==
    /\ RejectedCall /\ tpc = "idle" /\ opened = 1
    /\ result = NotSelectText
    /\ param.query.s = <<" ", "d", "e", "l", "e", "t", "e", "\n">>

\* ---- C6
\* C6: when the store reports an error while a tool call connects, executes
\* or fetches, the call returns 'Error retrieving DDL: ...' (get_table_ddl) or
\* 'Error executing query: ...' (execute_select_query) as its result; no
\* exception leaves the tool.
C6_StoreErrorsBecomeText ==
    /\ result.msg # "RAISED"
    /\ (tpc = "idle" /\ storeErr) =>
          /\ result.arg \in StoreErrors
          /\ tool = "get_table_ddl" => result.msg = "Error retrieving DDL: "
          /\ tool = "execute_select_query" => result.msg = "Error executing query: "

C6_Witness ==
    /\ tpc = "idle" /\ storeErr /\ tool = "execute_select_query"
    /\ stmts # <<>>
    /\ result.msg = "Error executing query: "

\* ---- C7
\* C7 as stated: get_table_ddl for a table that does not exist returns
\* 'No DDL found for table <name>', whether the store answers with no row or
\* reports an error.
C7_Original ==
    UnknownTableReturned => result = Res("No DDL found for table ", param.table.s)

\* C7 amended: get_table_ddl for a table that does not exist returns a text
\* and no fault: 'No DDL found for table <name>', with the name as given, when
\* the store answers with no row, 'Error retrieving DDL: ...' when the store
\* reports an error.
C7_UnknownTable ==
    UnknownTableReturned =>
        IF storeErr
        THEN result.msg = "Error retrieving DDL: " /\ result.arg \in StoreErrors
        ELSE noRow /\ result = Res("No DDL found for table ", param.table.s)

C7_Witness ==
    /\ UnknownTableReturned /\ noRow /\ ~storeErr
    /\ param.table.s = <<"x">>
    /\ result = Res("No DDL found for table ", <<"x">>)

\* ---- C9
\* C9: a tool call opens at most one store connection, the connection is
\* closed when the call has returned (a result, the rejection of a query that
\* is not a SELECT, a store error), and no connection serves two calls.
C9_ConnectionScoped ==
    /\ opened <= 1
    /\ Cardinality(conns) <= opened
    /\ tpc \in {"idle", "connect"} => conns = {}
    /\ \A i, j \in 1..Len(connLog) : connLog[i] = connLog[j] => i = j
    /\ Len(connLog) <= calls + 1

C9_Witness ==
    /\ tpc = "idle" /\ calls >= 2 /\ Len(connLog) = 2 /\ opened = 1
    /\ result = NotSelectText

\* ---- C2
\* C2: when a unary request has ended, with an answer or with an error after
\* the handshake, the tool discovery or the loop raised, every session and
\* child process of the request is closed and its client's close() has run.
C2_UnaryReleases ==
    \A t \in Unary :
        pc[t] = "done" =>
            /\ client[t] = "closed"
            /\ \A i \in ProcsOf(t) : ~procs[i].alive /\ ~procs[i].open

C2_Witness ==
    \E t \in Unary :
        /\ pc[t] = "done" /\ cause[t] = "other"
        /\ \E i \in ProcsOf(t) : procs[i].log = <<"spawn", "initialize", "close">>

\* ---- C8
\* C8: two unary requests in flight together never use the same session or
\* child process, and the death of one request's child leaves the other
\* request's child, position and output as they were.
InFlight(t) == pc[t] \in InSession

C8_Distinct ==
    \A t1, t2 \in Unary :
        (t1 # t2 /\ InFlight(t1) /\ InFlight(t2)) => cur[t1] # cur[t2]

C8_CrashLeavesOther ==
    \A t1, t2 \in Unary :
        (/\ t1 # t2 /\ InFlight(t1) /\ InFlight(t2)
         /\ procs[cur[t1]].alive /\ ~procs'[cur[t1]].alive) =>
            /\ procs'[cur[t2]].alive = procs[cur[t2]].alive
            /\ pc'[t2] = pc[t2] /\ out'[t2] = out[t2] /\ resp'[t2] = resp[t2]

Rank(e) ==
    CASE e = "spawn" -> 1 [] e = "initialize" -> 2 [] e = "list_tools" -> 3
      [] e = "call_tool" -> 4 [] OTHER -> 5

C10_ProtocolOrder ==
    \A i \in 1..Len(procs) :
        LET log == procs[i].log IN
        /\ log[1] = "spawn"
        /\ \A k \in 2..Len(log) :
              /\ Rank(log[k - 1]) <= Rank(log[k])
              /\ Rank(log[k - 1]) = Rank(log[k]) => log[k] = "call_tool"
              /\ log[k] = "list_tools" => log[k - 1] = "initialize"
              /\ log[k] = "call_tool" => log[k - 1] \in {"list_tools", "call_tool"}

C10_Witness ==
    \E i \in 1..Len(procs) :
        procs[i].log = <<"spawn", "initialize", "list_tools", "call_tool", "close">>

C4_ErrorFrameSent ==
    /\ cause[WSConn] = "other"
    /\ Len(out'[WSConn]) = Len(out[WSConn]) + 1
    /\ out'[WSConn][Len(out'[WSConn])].kind = "error"

\* C4 as stated: every step that sends such an error frame leaves the
\* connection open with the handler back at receive_text.
C4_ErrorKeepsConnection ==
    [][C4_ErrorFrameSent => (wsOpen' /\ pc'[WSConn] = "receive")]_vars

\* ---- C5
\* C5: no text returned to a user, by the unary endpoint or on the WebSocket,
\* holds '<think>' or '</think>'.
C5_NoDelimiter ==
    \A t \in Tasks : \A i \in 1..Len(out[t]) : ~HasDelimiter(out[t][i].text)

====
